---- MODULE Spec2Model ----
(***************************************************************************)
(* README generator: the two entry scripts (src/unnamed/part_000 and       *)
(* src/index.js), the license-render helpers, and the vendored Inquisitor  *)
(* question-flow helper.  Text is modelled by TLA+ strings; a JavaScript   *)
(* call result is a record [threw, value].                                 *)
(***************************************************************************)
EXTENDS Integers, Sequences, FiniteSets, TLC

VARIABLES
    script,       \* which entry script runs: "part_000" or "index"
    pc,           \* position of the run
    asked,        \* names of the questions prompted so far, in order
    outstanding,  \* set of questions prompted and not yet answered
    answers,      \* the answers object built by inquirer.prompt
    newReadMe,    \* result of the generateReadme call in the then-callback
    renderCalls,  \* number of generateReadme invocations
    writeCalls,   \* number of fs.writeFile invocations
    writeErr,     \* err handed to the writeFile callback
    file,         \* README.md in the working directory
    console,      \* console.log output, in order
    stopped,      \* the process was interrupted
    out,          \* results of the pure operations applied so far
    manifest,     \* Inquisitor: this.manifest
    todo,         \* Inquisitor: the questions argument of ask
    stack,        \* Inquisitor: the reductions in progress, innermost first
    prompted,     \* Inquisitor: prompter calls so far, in order
    waiting,      \* Inquisitor: the inquiry whose prompter promise is pending
    ipc,          \* Inquisitor: state of the promise returned by ask
    ierr,         \* Inquisitor: the error thrown
    checked       \* Inquisitor: the last call of _performPivotInquiry

vars == <<script, pc, asked, outstanding, answers, newReadMe, renderCalls,
          writeCalls, writeErr, file, console, stopped, out,
          manifest, todo, stack, prompted, waiting, ipc, ierr, checked>>

appVars == <<script, pc, asked, outstanding, answers, newReadMe, renderCalls,
             writeCalls, writeErr, file, console, stopped>>
inqVars == <<manifest, todo, stack, prompted, waiting, ipc, ierr, checked>>

\* ------------------------------------------------------------------------
\* JavaScript values

Return(v) == [threw |-> FALSE, value |-> v]
Throw(e) == [threw |-> TRUE, value |-> e]
NotCalled == [threw |-> FALSE, value |-> "<not called>"]

EmptyObject == [n \in {} |-> ""]

\* `${name}` of a binding destructured from obj: a property the object does
\* not have is undefined, which a template literal prints as "undefined".
Interpolate(obj, name) == IF name \in DOMAIN obj THEN obj[name] ELSE "undefined"

\* ------------------------------------------------------------------------
\* Text helpers (String.prototype.includes, split on line feeds)

Contains(s, t) ==
    \E i \in 1..(Len(s) - Len(t) + 1) : SubSeq(s, i, i + Len(t) - 1) = t

StartsWith(s, t) == Len(s) >= Len(t) /\ SubSeq(s, 1, Len(t)) = t

LineBreaks(s) == {i \in 1..Len(s) : SubSeq(s, i, i) = "\n"}

Lines(s) ==
    LET brk == LineBreaks(s)
        n == Cardinality(brk)
        pos[k \in 0..(n + 1)] ==
            IF k = 0 THEN 0
            ELSE IF k = n + 1 THEN Len(s) + 1
            ELSE CHOOSE i \in brk : Cardinality({j \in brk : j < i}) = k - 1
    IN [k \in 1..(n + 1) |-> SubSeq(s, pos[k - 1] + 1, pos[k] - 1)]

\* ------------------------------------------------------------------------
\* src/unnamed/part_000: the license-render operations

Badge == "![Crates.io](https://img.shields.io/crates/l/rustc-serialize/0.3.24)"

renderLicenseBadge(l) == IF l # "" THEN l \o Badge ELSE ""

renderLicenseLink_BadgeAfter(l) == IF l # "" THEN l \o " " \o Badge ELSE ""

renderLicenseLink(l) == IF l # "" THEN Badge \o " " \o l ELSE ""

renderLicenseSection(l) == IF l # "" THEN l ELSE ""

generateMarkdown(data) == "# " \o Interpolate(data, "title")

\* ------------------------------------------------------------------------
\* generateReadme of the two entry scripts

\* generateReadme reading a misspelt binding for the license.
generateReadme_LicenseTypo(a) == Return(
    "# " \o Interpolate(a, "title")
    \o "\n\n## Description\n    " \o Interpolate(a, "description")
    \o "\n\n## Table of Contents\n*[Description](#description) \n*[Installation](#installation)\n*[Usage](#usage)\n*[License](#license)\n*[Credits](#credits)\n*[Tests](#tests)\n*[Questions] (#questions)\n\n\n## Installation\n    "
    \o Interpolate(a, "installation")
    \o "\n\n## Usage\n    " \o Interpolate(a, "usage")
    \o "\n\n## License\n    " \o Interpolate(a, "licence")
    \o "\n\n## Contributing\n    " \o Interpolate(a, "credits")
    \o "\n\n## Tests\n    " \o Interpolate(a, "tests")
    \o "\n\n##Questions\n\nHere is a link to my GitHub profile "
    \o Interpolate(a, "username")
    \o ".\nIf you have any questions or would like to contribute to this  project you can email me at "
    \o Interpolate(a, "email") \o ".\n")

\* generateReadme with the section bodies at the start of their lines.
generateReadme_NoIndent(a) == Return(
    "# " \o Interpolate(a, "title")
    \o "\n\n## Description\n" \o Interpolate(a, "description")
    \o "\n\n## Table of Contents\n*[Description](#description) \n*[Installation](#installation)\n*[Usage](#usage)\n*[License](#license)\n*[Credits](#credits)\n*[Tests](#tests)\n*[Questions] (#questions)\n\n\n## Installation\n"
    \o Interpolate(a, "installation")
    \o "\n\n## Usage\n" \o Interpolate(a, "usage")
    \o "\n\n## License\n" \o Interpolate(a, "license")
    \o "\n\n## Contributing\n" \o Interpolate(a, "credits")
    \o "\n\n## Tests\n" \o Interpolate(a, "tests")
    \o "\n\n##Questions\n\nHere is a link to my GitHub profile "
    \o Interpolate(a, "username")
    \o ".\nIf you have any questions or would like to contribute to this  project you can email me at "
    \o Interpolate(a, "email") \o ".\n")

generateReadme(a) == Return(
    "# " \o Interpolate(a, "title")
    \o "\n\n## Description\n    " \o Interpolate(a, "description")
    \o "\n\n## Table of Contents\n*[Description](#description) \n*[Installation](#installation)\n*[Usage](#usage)\n*[License](#license)\n*[Credits](#credits)\n*[Tests](#tests)\n*[Questions] (#questions)\n\n\n## Installation\n    "
    \o Interpolate(a, "installation")
    \o "\n\n## Usage\n    " \o Interpolate(a, "usage")
    \o "\n\n## License\n    " \o Interpolate(a, "license")
    \o "\n\n## Contributing\n    " \o Interpolate(a, "credits")
    \o "\n\n## Tests\n    " \o Interpolate(a, "tests")
    \o "\n\n##Questions\n\nHere is a link to my GitHub profile "
    \o Interpolate(a, "username")
    \o ".\nIf you have any questions or would like to contribute to this  project you can email me at "
    \o Interpolate(a, "email") \o ".\n")

\* Identifiers bound where the template of src/index.js is evaluated: the
\* module's declarations and the destructured parameters.  `data` is none.
Scope_index == {"inquirer", "fs", "generateBadge", "generateReadme",
                "questions", "init", "title", "description", "installation",
                "usage", "credits", "tests", "license", "username", "email"}

\* The template is evaluated left to right; the third substitution,
\* ${data.description}, reads an identifier that is not in scope, so the
\* call throws.  (The ELSE branch is the text the template would give with
\* `data` bound to the answers; no run reaches it.)
generateReadme_index(a) ==
    IF "data" \notin Scope_index
    THEN Throw("ReferenceError: data is not defined")
    ELSE Return(
        "# " \o Interpolate(a, "title")
        \o "\n\n## Description\n" \o Interpolate(a, "description")
        \o "\n\n## Table of Contents\n-Description " \o Interpolate(a, "description")
        \o "\n-Installation" \o Interpolate(a, "installation")
        \o "\n-Usage" \o Interpolate(a, "usage")
        \o "\n-License" \o Interpolate(a, "license")
        \o "\n-Credits" \o Interpolate(a, "credits")
        \o "\n\n\n## Installation\n" \o Interpolate(a, "installation")
        \o "\n\n## Usage\n" \o Interpolate(a, "usage")
        \o "\n\n## License\n" \o Interpolate(a, "license")
        \o "\n\n## Contributing\n" \o Interpolate(a, "credits")
        \o "\n\n## Tests\n" \o Interpolate(a, "tests")
        \o "\n\n##Questions\nHere is a link to my GitHub profile "
        \o Interpolate(a, "username")
        \o ".\nIf you have any questions or would like to contribute to this  project you can email me at "
        \o Interpolate(a, "email") \o ".\n")

Scripts == {"part_000", "index"}

Render(s, a) == IF s = "part_000" THEN generateReadme(a) ELSE generateReadme_index(a)

\* ------------------------------------------------------------------------
\* The questions arrays

Q(type, message, name, choices) ==
    [type |-> type, message |-> message, name |-> name, choices |-> choices]

questions == <<
    Q("Input", "What is your project title?", "title", {}),
    Q("list", "Choose license", "license", {"MIT/Apache-2.0", "MIT", "BSD", "GPL"}),
    Q("Input", "Project description", "description", {}),
    Q("Input", "What installations did you use for your project?", "installation", {}),
    Q("Input", "Provide instructions and examples for use?", "usage", {}),
    Q("Input", "Who contributed to this project?", "contribution", {}),
    Q("Input", "What is your project test instructions?", "tests", {}),
    Q("Input", "GitHub username?", "username", {}),
    Q("input", "email address", "email", {}) >>

questions_index == <<
    Q("Input", "What is your project title?", "title", {}),
    Q("list", "Choose license", "license", {"Apache-2.0", "MIT", "BSD", "GPL"}),
    Q("Input", "What is your project description", "description", {}),
    Q("Input", "What is your project installation instructions?", "installation", {}),
    Q("Input", "What is your project usage information?", "usage", {}),
    Q("Input", "What is your project contribution guidelines?", "contribution", {}),
    Q("Input", "What is your project test instructions?", "tests", {}),
    Q("Input", "GitHub username?", "username", {}),
    Q("input", "email address", "email", {}) >>

Questions(s) == IF s = "part_000" THEN questions ELSE questions_index

\* Lines an operator can type at an input prompt (a line of text, no line
\* feed), per question.
InputTexts(name) ==
    CASE name = "title" -> {"", "Demo"}
      [] name = "description" -> {"", "A demo."}
      [] name = "installation" -> {"npm install"}
      [] name = "usage" -> {"", "run it"}
      [] name = "contribution" -> {"", "Jane"}
      [] name = "tests" -> {"none"}
      [] name = "username" -> {"janedoe"}
      [] name = "email" -> {"", "jane@example.com"}
      [] OTHER -> {""}

\* inquirer falls back to the input prompt for a type it has no prompt for
\* ('Input' with a capital is none of its prompt types).
PromptType(q) == IF q.type \in {"input", "list"} THEN q.type ELSE "input"

AnswersTo(q) == IF PromptType(q) = "list" THEN q.choices ELSE InputTexts(q.name)

SuccessMessage == "Successfully written Readme!"

\* Outcomes of fs.writeFile('README.md', data, cb): null, a failure to open
\* the file, or a failure while writing it.
WriteErrors == {"EACCES", "ENOSPC"}
NoError == "null"

NoFile == [exists |-> FALSE, content |-> ""]
FileOf(text) == [exists |-> TRUE, content |-> text]

\* The file after a write of data that ended with err: written whole on
\* success, untouched when the open failed, truncated when the write failed.
FileAfterWrite(old, data, err) ==
    CASE err = NoError -> {FileOf(data)}
      [] err = "EACCES" -> {old}
      [] OTHER -> {FileOf(SubSeq(data, 1, n)) : n \in {0, Len(data) \div 2}}

writeCallback_AlwaysSuccess(err) == SuccessMessage

\* (err) => err ? console.log(err) : console.log('Successfully written Readme!')
writeCallback(err) == IF err # NoError THEN err ELSE SuccessMessage

\* ------------------------------------------------------------------------
\* One run of an entry script

InitApp ==
    /\ script \in Scripts
    /\ pc = "start"
    /\ asked = <<>>
    /\ outstanding = {}
    /\ answers = EmptyObject
    /\ newReadMe = NotCalled
    /\ renderCalls = 0
    /\ writeCalls = 0
    /\ writeErr = NoError
    /\ file \in {NoFile, FileOf("old readme\n")}
    /\ console = <<>>
    /\ stopped = FALSE

IdleApp ==
    /\ script = "part_000"
    /\ pc = "idle"
    /\ asked = <<>>
    /\ outstanding = {}
    /\ answers = EmptyObject
    /\ newReadMe = NotCalled
    /\ renderCalls = 0
    /\ writeCalls = 0
    /\ writeErr = NoError
    /\ file = NoFile
    /\ console = <<>>
    /\ stopped = FALSE

IdlePure == out = EmptyObject

\* init(generateReadme): inquirer.prompt(questions) starts the prompt run.
init ==
    /\ pc = "start" /\ ~stopped
    /\ pc' = "prompting"
    /\ UNCHANGED <<script, asked, outstanding, answers, newReadMe, renderCalls,
                   writeCalls, writeErr, file, console, stopped>>
    /\ UNCHANGED <<out, inqVars>>

\* inquirer asks the questions of the array one at a time, in array order:
\* the next one is prompted once no prompt is open.
CanAsk_NoWait == Len(asked) < Len(Questions(script))

CanAsk == outstanding = {} /\ Len(asked) < Len(Questions(script))

NextQuestion == Questions(script)[Len(asked) + 1]

Ask ==
    /\ pc = "prompting" /\ ~stopped
    /\ CanAsk
    /\ asked' = Append(asked, NextQuestion.name)
    /\ outstanding' = outstanding \cup {NextQuestion.name}
    /\ UNCHANGED <<script, pc, answers, newReadMe, renderCalls, writeCalls,
                   writeErr, file, console, stopped>>
    /\ UNCHANGED <<out, inqVars>>

\* The promise of inquirer.prompt resolves once every question of the array
\* has been asked and answered.
AllAnswered(open) == open = {} /\ Len(asked) = Len(Questions(script))

Answer ==
    /\ pc = "prompting" /\ ~stopped
    /\ \E name \in outstanding :
         \E i \in 1..Len(Questions(script)) :
           /\ Questions(script)[i].name = name
           /\ \E text \in AnswersTo(Questions(script)[i]) :
                /\ answers' = (name :> text) @@ answers
                /\ outstanding' = outstanding \ {name}
                /\ pc' = IF AllAnswered(outstanding')
                         THEN "resolved" ELSE "prompting"
    /\ UNCHANGED <<script, asked, newReadMe, renderCalls, writeCalls, writeErr,
                   file, console, stopped>>
    /\ UNCHANGED <<out, inqVars>>

\* The render and the write started without waiting for the prompt promise.
Then_NoWait ==
    /\ pc \in {"prompting", "resolved"} /\ ~stopped
    /\ newReadMe' = Render(script, answers)
    /\ renderCalls' = renderCalls + 1
    /\ IF newReadMe'.threw
       THEN /\ pc' = "rejected"
            /\ UNCHANGED writeCalls
       ELSE /\ pc' = "writing"
            /\ writeCalls' = writeCalls + 1
    /\ UNCHANGED <<script, asked, outstanding, answers, writeErr, file,
                   console, stopped>>
    /\ UNCHANGED <<out, inqVars>>

\* The then-callback: render, then hand the document to fs.writeFile.  A
\* throw in the callback rejects the promise; nothing handles it.
Then ==
    /\ pc = "resolved" /\ ~stopped
    /\ newReadMe' = Render(script, answers)
    /\ renderCalls' = renderCalls + 1
    /\ IF newReadMe'.threw
       THEN /\ pc' = "rejected"
            /\ UNCHANGED writeCalls
       ELSE /\ pc' = "writing"
            /\ writeCalls' = writeCalls + 1
    /\ UNCHANGED <<script, asked, outstanding, answers, writeErr, file,
                   console, stopped>>
    /\ UNCHANGED <<out, inqVars>>

\* fs.writeFile completes and calls back with err.
WriteDone ==
    /\ pc = "writing" /\ ~stopped
    /\ \E err \in {NoError} \cup WriteErrors :
         /\ writeErr' = err
         /\ file' \in FileAfterWrite(file, newReadMe.value, err)
         /\ console' = Append(console, writeCallback(err))
    /\ pc' = "done"
    /\ UNCHANGED <<script, asked, outstanding, answers, newReadMe, renderCalls,
                   writeCalls, stopped>>
    /\ UNCHANGED <<out, inqVars>>

\* The operator interrupts the process while it waits (for an answer, for
\* the callbacks).
Interrupt ==
    /\ pc \in {"start", "prompting", "resolved", "writing"} /\ ~stopped
    /\ IF pc = "writing"
       THEN file' \in {file, FileOf(newReadMe.value)}
                      \cup FileAfterWrite(file, newReadMe.value, "ENOSPC")
       ELSE file' = file
    /\ stopped' = TRUE
    /\ UNCHANGED <<script, pc, asked, outstanding, answers, newReadMe,
                   renderCalls, writeCalls, writeErr, console>>
    /\ UNCHANGED <<out, inqVars>>


IdleInq ==
    /\ manifest = EmptyObject
    /\ todo = <<>>
    /\ stack = <<>>
    /\ prompted = <<>>
    /\ waiting = <<>>
    /\ ipc = "idle"
    /\ ierr = ""
    /\ checked = <<>>

Init == InitApp /\ IdlePure /\ IdleInq

Next == init \/ Ask \/ Answer \/ Then \/ WriteDone \/ Interrupt

Spec == Init /\ [][Next]_vars

\* ------------------------------------------------------------------------
\* The rendering operations applied to an AnswerSet

\* Text a field of an AnswerSet may carry: any text, line feeds and heading
\* markers included.
FieldTexts(name) ==
    CASE name = "title" -> {"", "Demo"}
      [] name = "license" -> {"", "MIT", "MIT/Apache-2.0", "x\ny"}
      [] name = "description" -> {"", "A demo.", "a\n## Extra"}
      [] name = "installation" -> {"npm install"}
      [] name = "usage" -> {"run it", "## Usage"}
      [] name = "contribution" -> {"", "Jane"}
      [] name = "tests" -> {"none"}
      [] name = "username" -> {"janedoe"}
      [] name = "email" -> {"", "jane@example.com"}
      [] OTHER -> {""}

\* An AnswerSet keyed by the question names, or with the contributors under
\* the name the template reads (credits).
AnswerSet(t, l, d, i, u, c, te, un, e, ck) ==
    ("title" :> t) @@ ("license" :> l) @@ ("description" :> d)
    @@ ("installation" :> i) @@ ("usage" :> u) @@ (ck :> c) @@ ("tests" :> te)
    @@ ("username" :> un) @@ ("email" :> e)

AnswerSets ==
    {AnswerSet(t, l, d, i, u, c, te, un, e, ck) :
        t \in FieldTexts("title"), l \in FieldTexts("license"),
        d \in FieldTexts("description"), i \in FieldTexts("installation"),
        u \in FieldTexts("usage"), c \in FieldTexts("contribution"),
        te \in FieldTexts("tests"), un \in FieldTexts("username"),
        e \in FieldTexts("email"), ck \in {"contribution", "credits"}}

InitPure ==
    /\ script \in Scripts
    /\ answers \in AnswerSets
    /\ pc = "idle"
    /\ asked = <<>>
    /\ outstanding = {}
    /\ newReadMe = NotCalled
    /\ renderCalls = 0
    /\ writeCalls = 0
    /\ writeErr = NoError
    /\ file = NoFile
    /\ console = <<>>
    /\ stopped = FALSE
    /\ out = EmptyObject
    /\ IdleInq

Called(f) == f \in DOMAIN out

CallGenerateReadme ==
    /\ ~Called("generateReadme")
    /\ out' = ("generateReadme" :> Render(script, answers)) @@ out
    /\ UNCHANGED <<appVars, inqVars>>

CallRenderLicenseBadge ==
    /\ ~Called("renderLicenseBadge")
    /\ out' = ("renderLicenseBadge" :> Return(renderLicenseBadge(answers["license"]))) @@ out
    /\ UNCHANGED <<appVars, inqVars>>

CallRenderLicenseLink ==
    /\ ~Called("renderLicenseLink")
    /\ out' = ("renderLicenseLink" :> Return(renderLicenseLink(answers["license"]))) @@ out
    /\ UNCHANGED <<appVars, inqVars>>

CallRenderLicenseSection ==
    /\ ~Called("renderLicenseSection")
    /\ out' = ("renderLicenseSection" :> Return(renderLicenseSection(answers["license"]))) @@ out
    /\ UNCHANGED <<appVars, inqVars>>

NextPure ==
    \/ CallGenerateReadme
    \/ CallRenderLicenseBadge
    \/ CallRenderLicenseLink
    \/ CallRenderLicenseSection

SpecPure == InitPure /\ [][NextPure]_vars


\* ------------------------------------------------------------------------
\* The vendored Inquisitor helper (src/node_modules/inquisitor)

MaxInquiries == 2

\* JavaScript values of the helper's inputs, tagged with their type.
JAbsent == [t |-> "absent", v |-> ""]
JNumber == [t |-> "number", v |-> "42"]
JString(x) == [t |-> "string", v |-> x]
JFunction(id) == [t |-> "function", v |-> id]
\* A question object of the manifest; v is its name property.
JObject == [t |-> "object", v |-> ""]

has(x) == x.t # "absent"
isString(x) == x.t = "string"
isFunction(x) == x.t = "function"
isObject(x) == x.t \in {"object", "function"}

\* The three shapes _reduceInquiries tells apart, and a value of none of them.
StringInquiry(name) == [k |-> "string", name |-> name]
ArrayInquiry(items) == [k |-> "array", items |-> items]
PivotInquiry(q, l) == [k |-> "object", question |-> q, logic |-> l]
OtherInquiry == [k |-> "number"]

\* A results object, as the map from the paths of its properties to their
\* values; a property that holds an object has the value "[object]" and its
\* members follow under its path.
Without(obj, key) == [p \in {q \in DOMAIN obj : q[1] # key} |-> obj[p]]

SetAnswer(obj, key, answer) == (<<key>> :> answer) @@ Without(obj, key)

SetObject(obj, key, child) ==
    [p \in {<<key>>} \cup {<<key>> \o q : q \in DOMAIN child} |->
        IF p = <<key>> THEN "[object]" ELSE child[Tail(p)]]
    @@ Without(obj, key)

\* String(array), the property name `results[questions]` uses.
RECURSIVE KeyOf(_)
KeyOf(items) ==
    IF items = <<>> THEN ""
    ELSE LET h == items[1]
             e == CASE h.k = "string" -> h.name
                    [] h.k = "array" -> KeyOf(h.items)
                    [] h.k = "object" -> "[object Object]"
                    [] OTHER -> "42"
         IN IF Len(items) = 1 THEN e ELSE e \o "," \o KeyOf(Tail(items))

\* The logic method of the pivots: the follow-up questions for an answer.
Logic(id, answer) ==
    IF answer = "yes" THEN <<StringInquiry("q2")>> ELSE <<>>

PrompterAnswers == {"yes", "no"}

\* _.has(this.manifest, name) && _.isObject(this.manifest[name])
InManifest(m, name) == name \in DOMAIN m /\ isObject(m[name])

Manifests == {("q1" :> JObject) @@ ("q2" :> JObject) @@ ("q3" :> JString("oops"))}

Pivots ==
    {PivotInquiry(q, l) :
        q \in {JAbsent, JNumber, JString("q1"), JString("q3"), JString("zz")},
        l \in {JAbsent, JString("not a function"), JFunction("branch")}}

InquiryPool ==
    Pivots \cup {StringInquiry("q1"), StringInquiry("zz"),
                 ArrayInquiry(<<StringInquiry("q2")>>), OtherInquiry}

RECURSIVE InquiryLists(_)
InquiryLists(n) ==
    IF n = 0 THEN {<<>>}
    ELSE LET shorter == InquiryLists(n - 1)
         IN shorter \cup {Append(l, i) : l \in {x \in shorter : Len(x) = n - 1},
                                         i \in InquiryPool}

Frame(items, acc, kind, key) ==
    [items |-> items, acc |-> acc, kind |-> kind, key |-> key]

\* The state after `new Inquisitor(manifest)` with a manifest the
\* constructor accepts, and the argument of the coming call of ask.
InitInq ==
    /\ manifest \in Manifests
    /\ todo \in [isArray : {TRUE}, items : InquiryLists(MaxInquiries)]
                \cup {[isArray |-> FALSE, items |-> <<>>]}
    /\ stack = <<>>
    /\ prompted = <<>>
    /\ waiting = <<>>
    /\ ipc = "new"
    /\ ierr = ""
    /\ checked = <<>>
    /\ IdleApp /\ IdlePure

\* Inquisitor.prototype.ask
ask ==
    /\ ipc = "new"
    /\ IF ~todo.isArray \/ Len(todo.items) = 0
       THEN /\ ipc' = "threw"
            /\ ierr' = "No questions were found"
            /\ UNCHANGED stack
       ELSE /\ ipc' = "pending"
            /\ stack' = <<Frame(todo.items, EmptyObject, "ask", "")>>
            /\ UNCHANGED ierr
    /\ UNCHANGED <<manifest, todo, prompted, waiting, checked>>
    /\ UNCHANGED <<appVars, out>>

Reducing == ipc = "pending" /\ waiting = <<>> /\ stack # <<>>

Inquiry == stack[1].items[1]

\* The stack with the first inquiry of the innermost reduction taken off.
Shifted == [stack EXCEPT ![1].items = Tail(@)]

\* lib/prompter.js: names the question object and prompts it.
Prompted(name) ==
    /\ manifest' = [manifest EXCEPT ![name].v = name]
    /\ prompted' = Append(prompted, name)

Reject(message) ==
    /\ ipc' = "rejected"
    /\ ierr' = message

\* _reduceInquiries on a string: _performStringInquiry up to the prompt.
performStringInquiry ==
    /\ Reducing /\ stack[1].items # <<>>
    /\ Inquiry.k = "string"
    /\ IF ~InManifest(manifest, Inquiry.name)
       THEN /\ Reject("Question \"" \o Inquiry.name \o "\" not found in the manifest")
            /\ UNCHANGED <<manifest, stack, prompted, waiting>>
       ELSE /\ Prompted(Inquiry.name)
            /\ waiting' = <<Inquiry>>
            /\ stack' = Shifted
            /\ UNCHANGED <<ipc, ierr>>
    /\ UNCHANGED <<todo, checked>>
    /\ UNCHANGED <<appVars, out>>

\* The prompter resolves: results[questionName] = answer.
StringAnswered ==
    /\ ipc = "pending" /\ waiting # <<>> /\ waiting[1].k = "string"
    /\ \E answer \in PrompterAnswers :
         stack' = [stack EXCEPT ![1].acc = SetAnswer(@, waiting[1].name, answer)]
    /\ waiting' = <<>>
    /\ UNCHANGED <<manifest, todo, prompted, ipc, ierr, checked>>
    /\ UNCHANGED <<appVars, out>>

\* _reduceInquiries on an array: _performArrayInquiry starts a reduction of
\* its own from {}.
performArrayInquiry ==
    /\ Reducing /\ stack[1].items # <<>>
    /\ Inquiry.k = "array"
    /\ stack' = <<Frame(Inquiry.items, EmptyObject, "array", KeyOf(Inquiry.items))>>
                \o Shifted
    /\ UNCHANGED <<manifest, todo, prompted, waiting, ipc, ierr, checked>>
    /\ UNCHANGED <<appVars, out>>

\* The three checks at the head of _performPivotInquiry: the message of the
\* error thrown, or "" when the pivot passes.
PivotError(m, pivot) ==
    IF ~has(pivot.question) \/ ~isString(pivot.question)
    THEN "Pivot does not contain a valid \"question\" property"
    ELSE IF ~InManifest(m, pivot.question.v)
    THEN "Question \"" \o pivot.question.v \o "\" not found in the manifest"
    ELSE IF ~has(pivot.logic) /\ ~isFunction(pivot.logic)
    THEN "Pivot does not contain a valid \"logic\" method"
    ELSE ""

\* _reduceInquiries on an object: _performPivotInquiry up to the prompt.
performPivotInquiry ==
    /\ Reducing /\ stack[1].items # <<>>
    /\ Inquiry.k = "object"
    /\ checked' = <<[pivot |-> Inquiry, results |-> stack[1].acc,
                     prompts |-> Len(prompted)]>>
    /\ IF PivotError(manifest, Inquiry) # ""
       THEN /\ Reject(PivotError(manifest, Inquiry))
            /\ UNCHANGED <<manifest, stack, prompted, waiting>>
       ELSE /\ Prompted(Inquiry.question.v)
            /\ waiting' = <<Inquiry>>
            /\ stack' = Shifted
            /\ UNCHANGED <<ipc, ierr>>
    /\ UNCHANGED todo
    /\ UNCHANGED <<appVars, out>>

\* The prompter resolves with the primary answer: pivot.logic.call gives the
\* branched questions, reduced from {_answer: primaryAnswer}.
PivotAnswered ==
    /\ ipc = "pending" /\ waiting # <<>> /\ waiting[1].k = "object"
    /\ \E answer \in PrompterAnswers :
         IF ~isFunction(waiting[1].logic)
         THEN /\ Reject("TypeError: pivot.logic.call is not a function")
              /\ UNCHANGED stack
         ELSE /\ stack' = <<Frame(Logic(waiting[1].logic.v, answer),
                                  SetAnswer(EmptyObject, "_answer", answer),
                                  "pivot", waiting[1].question.v)>> \o stack
              /\ UNCHANGED <<ipc, ierr>>
    /\ waiting' = <<>>
    /\ UNCHANGED <<manifest, todo, prompted, checked>>
    /\ UNCHANGED <<appVars, out>>

\* _reduceInquiries on anything else returns the results unaltered.
skipInquiry ==
    /\ Reducing /\ stack[1].items # <<>>
    /\ Inquiry.k \notin {"string", "array", "object"}
    /\ stack' = Shifted
    /\ UNCHANGED <<manifest, todo, prompted, waiting, ipc, ierr, checked>>
    /\ UNCHANGED <<appVars, out>>

\* A reduction has no inquiry left: the promise of ask is fulfilled, or the
\* enclosing inquiry stores the answers (results[key] = answers).
reduced ==
    /\ Reducing /\ stack[1].items = <<>>
    /\ IF Len(stack) = 1
       THEN /\ ipc' = "fulfilled"
            /\ UNCHANGED stack
       ELSE /\ stack' = [Tail(stack) EXCEPT
                           ![1].acc = SetObject(@, stack[1].key, stack[1].acc)]
            /\ UNCHANGED ipc
    /\ UNCHANGED <<manifest, todo, prompted, waiting, ierr, checked>>
    /\ UNCHANGED <<appVars, out>>

NextInq ==
    \/ ask
    \/ performStringInquiry
    \/ StringAnswered
    \/ performArrayInquiry
    \/ performPivotInquiry
    \/ PivotAnswered
    \/ skipInquiry
    \/ reduced

SpecInq == InitInq /\ [][NextInq]_vars


\* ========================================================================
\* Properties

IsHeading(line) == StartsWith(line, "##")

\* The heading lines of a document, in order.
Headings(doc) == SelectSeq(Lines(doc), IsHeading)

\* The lines of the section under heading h: from the line after the first
\* line equal to h up to the next heading line (or the end).
SectionBody(doc, h) ==
    LET ls == Lines(doc)
        at == {i \in 1..Len(ls) : ls[i] = h}
    IN IF at = {} THEN <<>>
       ELSE LET start == CHOOSE i \in at : \A j \in at : i <= j
                later == {j \in (start + 1)..Len(ls) : IsHeading(ls[j])}
                stop == IF later = {} THEN Len(ls) + 1
                        ELSE CHOOSE j \in later : \A k \in later : j <= k
            IN SubSeq(ls, start + 1, stop - 1)

RECURSIVE JoinLines(_)
JoinLines(ls) ==
    IF ls = <<>> THEN ""
    ELSE IF Len(ls) = 1 THEN ls[1]
    ELSE ls[1] \o "\n" \o JoinLines(Tail(ls))

SectionText(doc, h) == JoinLines(SectionBody(doc, h))

EndsWith(s, t) == Len(s) >= Len(t) /\ SubSeq(s, Len(s) - Len(t) + 1, Len(s)) = t

InitialFiles == {NoFile, FileOf("old readme\n")}

QuestionOrder == <<"title", "license", "description", "installation", "usage",
                   "contribution", "tests", "username", "email">>

Answered(n) == n \in DOMAIN answers /\ n \notin outstanding

AllNineAnswered == \A i \in 1..Len(QuestionOrder) : Answered(QuestionOrder[i])

\* C1: README.md is written only after all nine answers are collected and
\* generateReadme has returned the document; a run that stops before the
\* last prompt is answered has made no write of README.md, whole or partial.
C1_WriteOnlyAfterAnswers ==
    /\ (writeCalls > 0 \/ file \notin InitialFiles) =>
          /\ AllNineAnswered
          /\ renderCalls = 1
          /\ newReadMe # NotCalled /\ ~newReadMe.threw
    /\ (stopped /\ ~AllNineAnswered) => (writeCalls = 0 /\ file \in InitialFiles)

C1_Witness ==
    /\ pc = "done" /\ writeErr = NoError
    /\ AllNineAnswered
    /\ file = FileOf(newReadMe.value)

\* C2: generateReadme never fails: in both entry scripts every call returns
\* a document and raises no error, so every run that completes its prompts
\* reaches the file write.
C2_RenderNeverFails ==
    /\ renderCalls > 0 => ~newReadMe.threw
    /\ pc # "rejected"

\* C3: every answer collected by the prompts is interpolated verbatim into
\* its place in the document: the first line is "# " and the title, and the
\* Description, Installation, Usage, License, Contributing and Tests
\* sections and the Questions sentences contain the text answered for
\* description, installation, usage, license, contribution, tests, username
\* and email.
C3_AnswersVerbatim ==
    (pc \in {"writing", "done"} /\ ~newReadMe.threw) =>
        LET doc == newReadMe.value IN
        /\ Lines(doc)[1] = "# " \o answers["title"]
        /\ Contains(SectionText(doc, "## Description"), answers["description"])
        /\ Contains(SectionText(doc, "## Installation"), answers["installation"])
        /\ Contains(SectionText(doc, "## Usage"), answers["usage"])
        /\ Contains(SectionText(doc, "## License"), answers["license"])
        /\ Contains(SectionText(doc, "## Contributing"), answers["contribution"])
        /\ Contains(SectionText(doc, "## Tests"), answers["tests"])
        /\ Contains(SectionText(doc, "##Questions"), "profile " \o answers["username"] \o ".")
        /\ Contains(SectionText(doc, "##Questions"), "email me at " \o answers["email"] \o ".")

\* C4: emptiness of the license is the only branch condition of the three
\* license-render operations: for a non-empty license L the badge is L
\* followed by more text, the link is more text followed by L, the section
\* is exactly L; for the empty license all three are empty; none throws.
C4_LicenseRender ==
    LET L == answers["license"] IN
    /\ Called("renderLicenseBadge") =>
          LET r == out["renderLicenseBadge"] IN
          /\ ~r.threw
          /\ IF L = "" THEN r.value = ""
             ELSE /\ r.value # "" /\ Contains(r.value, L)
                  /\ StartsWith(r.value, L) /\ Len(r.value) > Len(L)
                  /\ EndsWith(r.value, Badge)
    /\ Called("renderLicenseLink") =>
          LET r == out["renderLicenseLink"] IN
          /\ ~r.threw
          /\ IF L = "" THEN r.value = ""
             ELSE /\ r.value # "" /\ Contains(r.value, L)
                  /\ EndsWith(r.value, L) /\ Len(r.value) > Len(L)
                  /\ StartsWith(r.value, Badge)
    /\ Called("renderLicenseSection") =>
          LET r == out["renderLicenseSection"] IN
          ~r.threw /\ r.value = L

C4_Witness ==
    /\ answers["license"] = "MIT/Apache-2.0"
    /\ Called("renderLicenseBadge") /\ Called("renderLicenseLink")
    /\ Called("renderLicenseSection")
    /\ out["renderLicenseLink"].value = Badge \o " MIT/Apache-2.0"

\* C5: the license section of the document is what renderLicenseSection
\* gives for the license: it contains a non-empty license, and for the empty
\* license it holds no license text and no placeholder (a blank body).
C5_LicenseSection ==
    (Called("generateReadme") /\ ~out["generateReadme"].threw) =>
        LET doc == out["generateReadme"].value
            L == answers["license"]
        IN /\ SectionText(doc, "## License")
                = "    " \o renderLicenseSection(L) \o "\n"
           /\ L # "" => Contains(SectionText(doc, "## License"), L)
           /\ L = "" => SectionBody(doc, "## License") = <<"    ", "">>

C5_Witness ==
    /\ Called("generateReadme") /\ ~out["generateReadme"].threw
    /\ answers["license"] = ""
    /\ SectionBody(out["generateReadme"].value, "## License") = <<"    ", "">>

FixedHeadings == <<"## Description", "## Table of Contents", "## Installation",
                   "## Usage", "## License", "## Contributing", "## Tests",
                   "##Questions">>

SingleLine(a) == \A n \in DOMAIN a : LineBreaks(a[n]) = {}

\* C6 (as stated): for every AnswerSet the heading lines of the document are
\* the same fixed list in the same order, whatever text the fields contain.
C6_HeadingsFixed ==
    (Called("generateReadme") /\ ~out["generateReadme"].threw) =>
        Headings(out["generateReadme"].value) = FixedHeadings

\* C6 (amended): for every AnswerSet whose fields contain no line break,
\* the heading lines of the document generateReadme returns are the same
\* fixed list in the same order, whatever else the fields contain.
C6_HeadingsFixedSingleLine ==
    (Called("generateReadme") /\ ~out["generateReadme"].threw
        /\ SingleLine(answers)) =>
        Headings(out["generateReadme"].value) = FixedHeadings

C6_Witness ==
    /\ Called("generateReadme") /\ ~out["generateReadme"].threw
    /\ SingleLine(answers)
    /\ IsHeading(answers["usage"])
    /\ Headings(out["generateReadme"].value) = FixedHeadings

\* C7: the nine questions are asked in the fixed order, strictly in series:
\* at most one question is outstanding, a question is asked only after the
\* one before it is answered, each is asked once, and generateReadme is
\* invoked exactly once per run, after the last answer.
C7_PromptsInSeries ==
    /\ Cardinality(outstanding) <= 1
    /\ Len(asked) <= Len(QuestionOrder)
    /\ \A i \in 1..Len(asked) : asked[i] = QuestionOrder[i]
    /\ \A i \in 1..(Len(asked) - 1) : Answered(asked[i])
    /\ renderCalls <= 1
    /\ renderCalls = 1 => (AllNineAnswered /\ Len(asked) = Len(QuestionOrder))
    /\ pc \in {"writing", "done", "rejected"} => renderCalls = 1

C7_Witness ==
    /\ renderCalls = 1
    /\ asked = QuestionOrder
    /\ AllNineAnswered

\* C8: after the single write attempt exactly one console message is
\* produced: the success message if and only if the write succeeded,
\* otherwise the write error; there is no second write attempt.
C8_OneMessagePerWrite ==
    /\ writeCalls <= 1
    /\ pc = "done" =>
          /\ writeCalls = 1
          /\ Len(console) = 1
          /\ (console[1] = SuccessMessage) <=> (writeErr = NoError)
          /\ writeErr # NoError => console[1] = writeErr
    /\ pc # "done" => console = <<>>

C8_Witness ==
    /\ pc = "done"
    /\ writeErr \in WriteErrors
    /\ console = <<writeErr>>


\* What the documentation of ask requires of a pivot object: a question that
\* is a string naming a question object of the manifest, and a logic method.
PivotValid(m, pivot) ==
    /\ pivot.question.t = "string"
    /\ pivot.question.v \in DOMAIN m /\ m[pivot.question.v].t = "object"
    /\ pivot.logic.t = "function"

ValidationErrors(pivot) ==
    {"Pivot does not contain a valid \"question\" property",
     "Question \"" \o pivot.question.v \o "\" not found in the manifest",
     "Pivot does not contain a valid \"logic\" method"}

\* C10: a pivot whose question is missing, not a string or not in the
\* manifest, or whose logic is missing or not a function, is rejected by
\* _performPivotInquiry with its validation error before any question is
\* prompted, and the results object is left unchanged.
C10_PivotValidated ==
    (checked # <<>> /\ ~PivotValid(manifest, checked[1].pivot)) =>
        /\ ipc = "rejected"
        /\ ierr \in ValidationErrors(checked[1].pivot)
        /\ Len(prompted) = checked[1].prompts
        /\ stack[1].acc = checked[1].results


====
